---- MODULE Spec2Model ----
(***************************************************************************)
(* A model of the notes API: the in-memory store `notes` (a Map from id to  *)
(* Note), the zod schemas that validate request bodies and list queries,    *)
(* the seven route handlers of notesRouter and the error middleware.        *)
(*                                                                          *)
(* Strings are sequences of one-character strings.  A JSON value is a       *)
(* record [type, chars]; a JSON object is a function from its keys to JSON  *)
(* values.  A timestamp is the clock reading in milliseconds; its ISO form  *)
(* is the fixed-width sequence of its decimal digits, compared position by  *)
(* position as localeCompare compares two ISO strings.                      *)
(***************************************************************************)
EXTENDS Integers, Sequences, FiniteSets, TLC

VARIABLES
    notes,    \* the store: the Map's entries [key, value] in insertion order
    now,      \* the clock reading, in milliseconds
    req,      \* the request handled last
    res,      \* the response to it
    gone,     \* history: the ids deleted and not created again since
    inflight, \* the requests received whose route handler has not begun
    running,  \* the route handlers that have begun and not ended
    log,      \* history: the requests handled, in the order they ended
    steps     \* history: the writes of the store and the ticks of the clock

vars == <<notes, now, req, res, gone, inflight, running, log, steps>>

(***************************************************************************)
(* Bounds of the model.                                                     *)
(***************************************************************************)
\* Spec follows the server for MaxSteps writes of the store and clock ticks.
MaxSteps == 4
\* SpecList follows it for MaxListSteps of them.
MaxListSteps == 4
\* SpecBoundary follows it for MaxBoundarySteps of them.
MaxBoundarySteps == 2
\* The first clock reading: chosen so that the readings cross a digit boundary.
StartTime == 9
\* The requests the concurrent specification receives in all.
MaxRequests == 3

(***************************************************************************)
(* Program constants (the schemas' limits).                                 *)
(***************************************************************************)
TitleMax == 200
ContentMax == 10000
PageMin == 1
LimitMin == 1
LimitMax == 100
PageDefault == 1
LimitDefault == 10

(***************************************************************************)
(* Strings.                                                                 *)
(***************************************************************************)
WhiteSpace == {" ", "\t", "\n"}

Rep(c, n) == [i \in 1..n |-> c]

RECURSIVE SkipLeft(_, _)
SkipLeft(s, i) ==
    IF i > Len(s) THEN i
    ELSE IF s[i] \in WhiteSpace THEN SkipLeft(s, i + 1) ELSE i

RECURSIVE SkipRight(_, _)
SkipRight(s, i) ==
    IF i < 1 THEN i
    ELSE IF s[i] \in WhiteSpace THEN SkipRight(s, i - 1) ELSE i

\* String.prototype.trim, as zod's .trim() applies it.
Trim(s) == SubSeq(s, SkipLeft(s, 1), SkipRight(s, Len(s)))

LowerChar(c) ==
    CASE c = "A" -> "a"
      [] c = "B" -> "b"
      [] c = "C" -> "c"
      [] c = "D" -> "d"
      [] OTHER -> c

\* String.prototype.toLowerCase.
ToLowerCase(s) == [i \in 1..Len(s) |-> LowerChar(s[i])]

\* String.prototype.includes.
Includes(s, k) ==
    \E i \in 0..(Len(s) - Len(k)) : SubSeq(s, i + 1, i + Len(k)) = k

(***************************************************************************)
(* JSON values of a request body.                                           *)
(***************************************************************************)
Str(s) == [type |-> "string", chars |-> s]
Num == [type |-> "number", chars |-> <<>>]
Null == [type |-> "null", chars |-> <<>>]

Issue(path, code) == [path |-> path, code |-> code]

(***************************************************************************)
(* Time and identifiers.                                                    *)
(***************************************************************************)
\* Date.prototype.toISOString: fixed width, most significant digit first.
ToISOString(t) == <<(t \div 10) % 10, t % 10>>

RECURSIVE CompareFrom(_, _, _)
CompareFrom(a, b, i) ==
    IF i > Len(a) /\ i > Len(b) THEN 0
    ELSE IF i > Len(a) THEN -1
    ELSE IF i > Len(b) THEN 1
    ELSE IF a[i] < b[i] THEN -1
    ELSE IF a[i] > b[i] THEN 1
    ELSE CompareFrom(a, b, i + 1)

\* a.localeCompare(b) on two ISO timestamps.
LocaleCompare(a, b) == CompareFrom(a, b, 1)

\* The values Math.random().toString(16).slice(2) takes in the model.
Randoms == {"0", "8"}

\* makeId: `${Date.now()}-${random}`; the pair stands for the joined string,
\* which the "-" makes one-to-one with it.
MakeId(t, r) == <<t, r>>

(***************************************************************************)
(* The schemas.                                                             *)
(***************************************************************************)
\* The string schema without .trim().
ParseStringNoTrim(v, path, lo, hi) ==
    IF v.type # "string"
    THEN [ok |-> FALSE, value |-> <<>>, issues |-> <<Issue(path, "invalid_type")>>]
    ELSE IF Len(v.chars) < lo
         THEN [ok |-> FALSE, value |-> v.chars, issues |-> <<Issue(path, "too_small")>>]
         ELSE IF Len(v.chars) > hi
              THEN [ok |-> FALSE, value |-> v.chars, issues |-> <<Issue(path, "too_big")>>]
              ELSE [ok |-> TRUE, value |-> v.chars, issues |-> <<>>]
\* z.string().trim().min(lo).max(hi) on one JSON value.
ParseString(v, path, lo, hi) ==
    IF v.type # "string"
    THEN [ok |-> FALSE, value |-> <<>>, issues |-> <<Issue(path, "invalid_type")>>]
    ELSE LET t == Trim(v.chars) IN
         IF Len(t) < lo
         THEN [ok |-> FALSE, value |-> t, issues |-> <<Issue(path, "too_small")>>]
         ELSE IF Len(t) > hi
              THEN [ok |-> FALSE, value |-> t, issues |-> <<Issue(path, "too_big")>>]
              ELSE [ok |-> TRUE, value |-> t, issues |-> <<>>]

\* A required key of a z.object.
Required(fields, key, lo, hi) ==
    IF key \in DOMAIN fields
    THEN ParseString(fields[key], key, lo, hi)
    ELSE [ok |-> FALSE, value |-> <<>>, issues |-> <<Issue(key, "invalid_type")>>]

\* An .optional() key of a z.object: absent is valid and stays absent.
Optional(fields, key, lo, hi) ==
    IF key \in DOMAIN fields
    THEN ParseString(fields[key], key, lo, hi)
    ELSE [ok |-> TRUE, value |-> <<>>, issues |-> <<>>]

\* createSchema.parse(req.body).  Keys the schema does not name are stripped.
CreateSchema(body) ==
    IF body.kind # "object"
    THEN [success |-> FALSE, data |-> <<>>, issues |-> <<Issue("", "invalid_type")>>]
    ELSE LET t == Required(body.fields, "title", 1, TitleMax)
             c == Required(body.fields, "content", 1, ContentMax)
         IN  IF t.ok /\ c.ok
             THEN [success |-> TRUE,
                   data |-> [title |-> t.value, content |-> c.value],
                   issues |-> <<>>]
             ELSE [success |-> FALSE, data |-> <<>>, issues |-> t.issues \o c.issues]

\* updateSchema without the stripping of the keys it does not name.
UpdateSchemaPassthrough(body) ==
    IF body.kind # "object"
    THEN [success |-> FALSE, data |-> <<>>, issues |-> <<Issue("", "invalid_type")>>]
    ELSE LET t == Optional(body.fields, "title", 1, TitleMax)
             c == Optional(body.fields, "content", 1, ContentMax)
             v == [k \in DOMAIN body.fields |->
                      IF k = "title" THEN t.value
                      ELSE IF k = "content" THEN c.value
                      ELSE body.fields[k].chars]
         IN  IF ~(t.ok /\ c.ok)
             THEN [success |-> FALSE, data |-> <<>>, issues |-> t.issues \o c.issues]
             ELSE IF Cardinality(DOMAIN v) > 0
                  THEN [success |-> TRUE, data |-> v, issues |-> <<>>]
                  ELSE [success |-> FALSE, data |-> <<>>,
                        issues |-> <<Issue("", "custom")>>]

\* updateSchema.parse(req.body): both keys optional, the result holds the keys
\* the body gave, and the refinement wants at least one.
UpdateSchema(body) ==
    IF body.kind # "object"
    THEN [success |-> FALSE, data |-> <<>>, issues |-> <<Issue("", "invalid_type")>>]
    ELSE LET t == Optional(body.fields, "title", 1, TitleMax)
             c == Optional(body.fields, "content", 1, ContentMax)
             given == DOMAIN body.fields \cap {"title", "content"}
             v == [k \in given |-> IF k = "title" THEN t.value ELSE c.value]
         IN  IF ~(t.ok /\ c.ok)
             THEN [success |-> FALSE, data |-> <<>>, issues |-> t.issues \o c.issues]
             ELSE IF Cardinality(DOMAIN v) > 0
                  THEN [success |-> TRUE, data |-> v, issues |-> <<>>]
                  ELSE [success |-> FALSE, data |-> <<>>,
                        issues |-> <<Issue("", "custom")>>]

(***************************************************************************)
(* The list query.  Express hands every query value over as a string.       *)
(***************************************************************************)
Digits == {"0", "1", "2", "3", "4", "5", "6", "7", "8", "9"}

DigitValue(c) ==
    CASE c = "0" -> 0 [] c = "1" -> 1 [] c = "2" -> 2 [] c = "3" -> 3
      [] c = "4" -> 4 [] c = "5" -> 5 [] c = "6" -> 6 [] c = "7" -> 7
      [] c = "8" -> 8 [] c = "9" -> 9

RECURSIVE DecimalValue(_)
DecimalValue(s) ==
    IF s = <<>> THEN 0
    ELSE 10 * DecimalValue(SubSeq(s, 1, Len(s) - 1)) + DigitValue(s[Len(s)])

\* Number(s), as z.coerce.number() applies it: the decimal value of a string
\* of digits (0 for the empty string), NaN for the other strings of the model.
ToNumber(s) ==
    LET t == Trim(s) IN
    IF \A i \in 1..Len(t) : t[i] \in Digits
    THEN [nan |-> FALSE, value |-> DecimalValue(t)]
    ELSE [nan |-> TRUE, value |-> 0]

\* z.coerce.number().int().min(lo)[.max(hi)].default(dflt) on one query key.
CoerceInt(query, key, lo, hasHi, hi, dflt) ==
    IF key \notin DOMAIN query
    THEN [ok |-> TRUE, value |-> dflt, issues |-> <<>>]
    ELSE LET n == ToNumber(query[key]) IN
         IF n.nan
         THEN [ok |-> FALSE, value |-> 0, issues |-> <<Issue(key, "invalid_type")>>]
         ELSE IF n.value < lo
              THEN [ok |-> FALSE, value |-> n.value, issues |-> <<Issue(key, "too_small")>>]
              ELSE IF hasHi /\ n.value > hi
                   THEN [ok |-> FALSE, value |-> n.value, issues |-> <<Issue(key, "too_big")>>]
                   ELSE [ok |-> TRUE, value |-> n.value, issues |-> <<>>]

\* z.string().trim().min(1).optional() on the query key q.
OptionalKeyword(query) ==
    IF "q" \notin DOMAIN query
    THEN [ok |-> TRUE, value |-> <<>>, issues |-> <<>>]
    ELSE LET t == Trim(query["q"]) IN
         IF Len(t) < 1
         THEN [ok |-> FALSE, value |-> t, issues |-> <<Issue("q", "too_small")>>]
         ELSE [ok |-> TRUE, value |-> t, issues |-> <<>>]

\* listQuerySchema.parse(req.query).
ListQuerySchema(query) ==
    LET p == CoerceInt(query, "page", PageMin, FALSE, 0, PageDefault)
        l == CoerceInt(query, "limit", LimitMin, TRUE, LimitMax, LimitDefault)
        k == OptionalKeyword(query)
    IN  IF p.ok /\ l.ok /\ k.ok
        THEN [success |-> TRUE,
              data |-> [page |-> p.value, limit |-> l.value,
                        hasQ |-> "q" \in DOMAIN query, q |-> k.value],
              issues |-> <<>>]
        ELSE [success |-> FALSE, data |-> <<>>,
              issues |-> p.issues \o l.issues \o k.issues]

(***************************************************************************)
(* Errors and the error middleware.                                         *)
(***************************************************************************)
ZodError(issues) == [type |-> "ZodError", issues |-> issues]

\* new HttpError(404, "NOTE_NOT_FOUND", "Note not found"): details is not given.
NoteNotFound ==
    [type |-> "HttpError", status |-> 404, code |-> "NOTE_NOT_FOUND",
     message |-> "Note not found", hasDetails |-> FALSE, details |-> Null]

\* The error express.json() raises on a body that is not JSON: neither a
\* ZodError nor an HttpError.
BodySyntaxError == [type |-> "SyntaxError"]

\* errorHandler(err, req, res, next).
ErrorHandler(err) ==
    IF err.type = "ZodError"
    THEN [status |-> 400,
          body |-> [error |-> [code |-> "VALIDATION_ERROR",
                               message |-> "Invalid request data",
                               details |-> err.issues]]]
    ELSE IF err.type = "HttpError"
         THEN [status |-> err.status,
               body |-> [error |-> [code |-> err.code,
                                    message |-> err.message,
                                    details |-> IF err.hasDetails
                                                THEN err.details ELSE Null]]]
         ELSE [status |-> 500,
               body |-> [error |-> [code |-> "INTERNAL_SERVER_ERROR",
                                    message |-> "Something went wrong"]]]

(***************************************************************************)
(* The store: a Map, its entries in insertion order.                        *)
(***************************************************************************)
Keys(m) == {m[i].key : i \in 1..Len(m)}

Has(m, k) == k \in Keys(m)

IndexOf(m, k) == CHOOSE i \in 1..Len(m) : m[i].key = k

\* notes.get(id), for a key the map has.
Get(m, k) == m[IndexOf(m, k)].value

\* notes.set(id, note): a key the map has keeps its place.
MapSet(m, k, v) ==
    IF Has(m, k)
    THEN [m EXCEPT ![IndexOf(m, k)] = [key |-> k, value |-> v]]
    ELSE Append(m, [key |-> k, value |-> v])

\* notes.delete(id).
MapDelete(m, k) == SelectSeq(m, LAMBDA e : e.key # k)

\* Array.from(notes.values()).
Values(m) == [i \in 1..Len(m) |-> m[i].value]

(***************************************************************************)
(* The handlers.  Each is a function of the store, the clock reading and    *)
(* the request, and gives the store and the response it leaves.             *)
(***************************************************************************)
Min(a, b) == IF a < b THEN a ELSE b
Max(a, b) == IF a > b THEN a ELSE b

\* Math.ceil(a / b) for a >= 0 and b >= 1.
Ceil(a, b) == (a + b - 1) \div b

\* The comparator of items.sort: b.createdAt.localeCompare(a.createdAt).
ByCreatedDesc(a, b) == LocaleCompare(b.createdAt, a.createdAt)

RECURSIVE InsertSorted(_, _)
InsertSorted(s, x) ==
    IF s = <<>> THEN <<x>>
    ELSE IF ByCreatedDesc(Head(s), x) <= 0
         THEN <<Head(s)>> \o InsertSorted(Tail(s), x)
         ELSE <<x>> \o s

\* Array.prototype.sort with the comparator above; the sort is stable.
RECURSIVE SortItems(_)
SortItems(items) ==
    IF items = <<>> THEN <<>>
    ELSE InsertSorted(SortItems(SubSeq(items, 1, Len(items) - 1)), items[Len(items)])

\* The predicate of items.filter.
MatchesCaseSensitive(n, keyword) ==
    Includes(n.title, keyword) \/ Includes(n.content, keyword)
Matches(n, keyword) ==
    \/ Includes(ToLowerCase(n.title), keyword)
    \/ Includes(ToLowerCase(n.content), keyword)

\* Array.prototype.slice(start, end) for 0 <= start <= end.
Slice(s, start, end) == SubSeq(s, start + 1, Min(end, Len(s)))

TotalPages(total, limit) == Max(1, Ceil(total, limit))

SafePageNoClamp(page, totalPages) == page
SafePage(page, totalPages) == Min(page, totalPages)

\* notesRouter.get("/").
ListHandler(store, query) ==
    LET parsed == ListQuerySchema(query) IN
    IF ~parsed.success
    THEN [notes |-> store, res |-> ErrorHandler(ZodError(parsed.issues))]
    ELSE LET page == parsed.data.page
             limit == parsed.data.limit
             sorted == SortItems(Values(store))
             items == IF parsed.data.hasQ /\ parsed.data.q # <<>>
                      THEN LET keyword == ToLowerCase(parsed.data.q) IN
                           SelectSeq(sorted, LAMBDA n : Matches(n, keyword))
                      ELSE sorted
             total == Len(items)
             totalPages == TotalPages(total, limit)
             safePage == SafePage(page, totalPages)
             start == (safePage - 1) * limit
             pageItems == Slice(items, start, start + limit)
         IN  [notes |-> store,
              res |-> [status |-> 200,
                       body |-> [items |-> pageItems,
                                 meta |-> [page |-> safePage, limit |-> limit,
                                           total |-> total,
                                           totalPages |-> totalPages]]]]

\* notesRouter.get("/:id").
GetHandler(store, id) ==
    IF ~Has(store, id)
    THEN [notes |-> store, res |-> ErrorHandler(NoteNotFound)]
    ELSE [notes |-> store, res |-> [status |-> 200, body |-> Get(store, id)]]

\* notesRouter.post("/"): t is the clock reading, r the random part of the id.
PostHandler(store, t, r, body) ==
    LET parsed == CreateSchema(body) IN
    IF ~parsed.success
    THEN [notes |-> store, res |-> ErrorHandler(ZodError(parsed.issues))]
    ELSE LET at == ToISOString(t)
             note == [id |-> MakeId(t, r),
                      title |-> parsed.data.title,
                      content |-> parsed.data.content,
                      createdAt |-> at,
                      updatedAt |-> at]
         IN  [notes |-> MapSet(store, note.id, note),
              res |-> [status |-> 201, body |-> note]]

\* { ...existing, title: body.title, content: body.content, updatedAt }.
Replaced(existing, data, at) ==
    [existing EXCEPT !.title = data.title, !.content = data.content,
                     !.updatedAt = at]

\* notesRouter.put("/:id").
PutHandler(store, t, id, body) ==
    IF ~Has(store, id)
    THEN [notes |-> store, res |-> ErrorHandler(NoteNotFound)]
    ELSE LET parsed == CreateSchema(body) IN
         IF ~parsed.success
         THEN [notes |-> store, res |-> ErrorHandler(ZodError(parsed.issues))]
         ELSE LET updated == Replaced(Get(store, id), parsed.data, ToISOString(t))
              IN  [notes |-> MapSet(store, id, updated),
                   res |-> [status |-> 200, body |-> updated]]

\* The merge without the refresh of updatedAt.
MergedStale(existing, patch, at) ==
    [k \in DOMAIN existing |->
        IF k \in DOMAIN patch THEN patch[k] ELSE existing[k]]

\* { ...existing, ...patch, updatedAt: now }: a key of patch replaces the
\* note's, the other keys of the note stay.
Merged(existing, patch, at) ==
    [k \in DOMAIN existing |->
        IF k = "updatedAt" THEN at
        ELSE IF k \in DOMAIN patch THEN patch[k]
        ELSE existing[k]]

\* The handler of PATCH writing the refreshed note before it validates.
PatchHandlerWriteFirst(store, t, id, body) ==
    IF ~Has(store, id)
    THEN [notes |-> store, res |-> ErrorHandler(NoteNotFound)]
    ELSE LET parsed == UpdateSchema(body)
             touched == [Get(store, id) EXCEPT !.updatedAt = ToISOString(t)]
         IN
         IF ~parsed.success
         THEN [notes |-> MapSet(store, id, touched),
               res |-> ErrorHandler(ZodError(parsed.issues))]
         ELSE LET updated == Merged(Get(store, id), parsed.data, ToISOString(t))
              IN  [notes |-> MapSet(store, id, updated),
                   res |-> [status |-> 200, body |-> updated]]

\* notesRouter.patch("/:id").
PatchHandler(store, t, id, body) ==
    IF ~Has(store, id)
    THEN [notes |-> store, res |-> ErrorHandler(NoteNotFound)]
    ELSE LET parsed == UpdateSchema(body) IN
         IF ~parsed.success
         THEN [notes |-> store, res |-> ErrorHandler(ZodError(parsed.issues))]
         ELSE LET updated == Merged(Get(store, id), parsed.data, ToISOString(t))
              IN  [notes |-> MapSet(store, id, updated),
                   res |-> [status |-> 200, body |-> updated]]

\* The handler of DELETE acknowledging without removing.
DeleteHandlerKeeps(store, id) ==
    IF ~Has(store, id)
    THEN [notes |-> store, res |-> ErrorHandler(NoteNotFound)]
    ELSE [notes |-> store,
          res |-> [status |-> 200, body |-> [deleted |-> TRUE]]]

\* notesRouter.delete("/:id").
DeleteHandler(store, id) ==
    IF ~Has(store, id)
    THEN [notes |-> store, res |-> ErrorHandler(NoteNotFound)]
    ELSE [notes |-> MapDelete(store, id),
          res |-> [status |-> 200, body |-> [deleted |-> TRUE]]]

(***************************************************************************)
(* The requests of the model.                                               *)
(***************************************************************************)
Object(fields) == [kind |-> "object", fields |-> fields]

\* A body that is JSON but no object.
ArrayBody == [kind |-> "array", fields |-> <<>>]

\* A body that is not JSON.
MalformedBody == [kind |-> "malformed", fields |-> <<>>]

\* The bodies of the specification Spec: a full body whose strings need
\* trimming and which carries keys no schema names, partial bodies, and
\* bodies the schemas reject.
Bodies ==
    { Object([title |-> Str(<<" ", "A", "b", " ">>),
              content |-> Str(<<"a", "B", " ", "c", "\n">>),
              id |-> Str(<<"x">>), createdAt |-> Str(<<"0">>),
              updatedAt |-> Str(<<"0">>)]),
      Object([title |-> Str(<<"C", "d">>)]),
      Object([content |-> Str(<<" ", "a", "b", "D">>), id |-> Str(<<"x">>),
              createdAt |-> Str(<<"0">>)]),
      Object([id |-> Str(<<"x">>)]),
      Object([title |-> Str(<<" ", "\t">>), content |-> Str(<<"a", "b">>)]),
      ArrayBody,
      MalformedBody }

LongTitle == Rep("x", TitleMax)
LongContent == Rep("y", ContentMax)

\* The bodies of the specification SpecBoundary: strings at and beyond the
\* schemas' limits, of the wrong type, empty, of white space only, and
\* bodies with keys missing and with keys no schema names.
BoundaryBodies ==
    { Object([title |-> Str(<<" ", "A", "b", " ">>), content |-> Str(<<"a", "b">>),
              id |-> Str(<<"x">>)]),
      Object([title |-> Str(<<"C", "d">>)]),
      Object(<<>>),
      Object([title |-> Str(<<" ", "\t">>), content |-> Str(<<"a", "b">>)]),
      Object([content |-> Str(<<>>)]),
      Object([title |-> Num, content |-> Str(<<"a", "b">>)]),
      Object([title |-> Str(<<" ">> \o LongTitle \o <<" ">>),
              content |-> Str(<<"\n">> \o LongContent \o <<" ">>)]),
      Object([title |-> Str(LongTitle \o <<"x">>), content |-> Str(<<"a", "b">>)]),
      Object([content |-> Str(LongContent \o <<"y">>)]) }

\* An id a request may name whether or not a note was created under it.
TheId == MakeId(StartTime, "0")

\* The ids requests name: those of the stored notes, those of the deleted
\* notes, and TheId.
Targets == Keys(notes) \cup gone \cup {TheId}

\* The queries of the specification Spec.
Queries == { <<>>, [page |-> <<"0">>], [q |-> <<"a", "B">>] }

(***************************************************************************)
(* The server: one request handled at a time, each handler run to its end.  *)
(***************************************************************************)
Init ==
    /\ notes = <<>>
    /\ now = StartTime
    /\ req = [method |-> "NONE"]
    /\ res = [status |-> 0]
    /\ gone = {}
    /\ inflight = {}
    /\ running = {}
    /\ log = <<>>
    /\ steps = 0

\* One request at a time: none waits, none is under way.
Sequential == UNCHANGED <<inflight, running, log>>

\* The outcome h of a route handler (or of the error middleware) becomes the
\* store and the response; request is what it answered.
Respond(h, request) ==
    /\ notes' = h.notes
    /\ res' = h.res
    /\ req' = request
    /\ gone' = IF request.method = "DELETE" /\ h.res.status = 200
               THEN gone \cup {request.id}
               ELSE gone \ Keys(h.notes)
    /\ UNCHANGED now

\* A request handled with no other under way.  A behaviour is followed for
\* budget writes and ticks; a request that leaves the store as it is can
\* always be handled.
Handled(h, request, budget) ==
    /\ h.notes = notes \/ steps < budget
    /\ Respond(h, request)
    /\ steps' = IF h.notes = notes THEN steps ELSE steps + 1
    /\ Sequential

\* The clock (Date.now(), new Date()) moves on between two requests.
Tick(budget) ==
    /\ steps < budget
    /\ now' = now + 1
    /\ steps' = steps + 1
    /\ UNCHANGED <<notes, req, res, gone>>
    /\ Sequential

\* app.use(express.json()); app.use("/notes", notesRouter);
\* app.use(errorHandler): a body that is not JSON never reaches its route
\* handler, whose outcome is h; express.json() hands its error to errorHandler.
App(store, body, h) ==
    IF body.kind = "malformed"
    THEN [notes |-> store, res |-> ErrorHandler(BodySyntaxError)]
    ELSE h

ListNotes(query, budget) ==
    Handled(ListHandler(notes, query), [method |-> "LIST", query |-> query], budget)

GetNote(id, budget) ==
    Handled(GetHandler(notes, id), [method |-> "GET", id |-> id], budget)

PostNote(body, r, budget) ==
    Handled(App(notes, body, PostHandler(notes, now, r, body)),
            [method |-> "POST", body |-> body], budget)

PutNote(id, body, budget) ==
    Handled(App(notes, body, PutHandler(notes, now, id, body)),
            [method |-> "PUT", id |-> id, body |-> body], budget)

PatchNote(id, body, budget) ==
    Handled(App(notes, body, PatchHandler(notes, now, id, body)),
            [method |-> "PATCH", id |-> id, body |-> body], budget)

DeleteNote(id, budget) ==
    Handled(DeleteHandler(notes, id), [method |-> "DELETE", id |-> id], budget)

Next ==
    \/ Tick(MaxSteps)
    \/ \E query \in Queries : ListNotes(query, MaxSteps)
    \/ \E id \in Targets : GetNote(id, MaxSteps)
    \/ \E body \in Bodies, r \in Randoms : PostNote(body, r, MaxSteps)
    \/ \E id \in Targets, body \in Bodies : PutNote(id, body, MaxSteps)
    \/ \E id \in Targets, body \in Bodies : PatchNote(id, body, MaxSteps)
    \/ \E id \in Targets : DeleteNote(id, MaxSteps)

Spec == Init /\ [][Next]_vars

(***************************************************************************)
(* SpecBoundary: the writing handlers on bodies at the schemas' limits,     *)
(* all within one millisecond.                                              *)
(***************************************************************************)
NextBoundary ==
    \/ \E body \in BoundaryBodies, r \in Randoms : PostNote(body, r, MaxBoundarySteps)
    \/ \E id \in Targets, body \in BoundaryBodies : PutNote(id, body, MaxBoundarySteps)
    \/ \E id \in Targets, body \in BoundaryBodies : PatchNote(id, body, MaxBoundarySteps)
    \/ \E id \in Targets : DeleteNote(id, MaxBoundarySteps)

SpecBoundary == Init /\ [][NextBoundary]_vars

\* C1: every stored note has a title of 1 to 200 characters and a content of
\* 1 to 10000 characters, and both are stored trimmed.
C1_StoredNotesWithinBounds ==
    \A i \in 1..Len(notes) :
        LET n == notes[i].value IN
        /\ 1 <= Len(n.title) /\ Len(n.title) <= TitleMax
        /\ 1 <= Len(n.content) /\ Len(n.content) <= ContentMax
        /\ Trim(n.title) = n.title
        /\ Trim(n.content) = n.content

\* C1's case: a body whose title and content are longer than the limits
\* before trimming and exactly at them after was accepted and stored.
C1_Witness ==
    /\ req.method \in {"POST", "PUT"}
    /\ res.status \in {200, 201}
    /\ Len(req.body.fields["title"].chars) > TitleMax
    /\ Len(req.body.fields["content"].chars) > ContentMax
    /\ \E i \in 1..Len(notes) :
          /\ Len(notes[i].value.title) = TitleMax
          /\ Len(notes[i].value.content) = ContentMax

(***************************************************************************)
(* SpecList: notes created over time, listed under queries that page and    *)
(* search.                                                                  *)
(***************************************************************************)
ListBodies ==
    { Object([title |-> Str(<<"A", "b">>), content |-> Str(<<"x", "y">>)]),
      Object([title |-> Str(<<"c">>), content |-> Str(<<"z", "a", "B">>)]),
      Object([title |-> Str(<<"B">>), content |-> Str(<<"a", " ", "b">>)]) }

ListQueries ==
    { <<>>,
      [limit |-> <<"1", "0">>, page |-> <<"9", "9">>],
      [limit |-> <<"1">>],
      [limit |-> <<"1">>, page |-> <<"2">>],
      [limit |-> <<"1">>, page |-> <<"3">>],
      [limit |-> <<"2">>, page |-> <<"1">>],
      [limit |-> <<"2">>, page |-> <<"2">>],
      [limit |-> <<"1", "0", "0">>, page |-> <<"0", "1">>],
      [q |-> <<" ", "A", "B", " ">>],
      [q |-> <<"b">>, limit |-> <<"1">>, page |-> <<"2">>],
      [q |-> <<"z", "z">>, page |-> <<"2">>],
      [q |-> <<"A", "b">>, limit |-> <<"2">>, page |-> <<"5">>],
      [page |-> <<"0">>],
      [limit |-> <<"1", "0", "1">>],
      [limit |-> <<"x">>],
      [q |-> <<" ">>] }

NextList ==
    \/ Tick(MaxListSteps)
    \/ \E body \in ListBodies, r \in Randoms : PostNote(body, r, MaxListSteps)
    \/ \E query \in ListQueries : ListNotes(query, MaxListSteps)

SpecList == Init /\ [][NextList]_vars

\* What a query asks for: the page and the limit (1 and 10 when not given)
\* and the keyword.
AskedPage(query) ==
    IF "page" \in DOMAIN query THEN DecimalValue(query["page"]) ELSE 1
AskedLimit(query) ==
    IF "limit" \in DOMAIN query THEN DecimalValue(query["limit"]) ELSE 10
AllDigits(s) == s # <<>> /\ \A i \in 1..Len(s) : s[i] \in Digits

\* A valid list query: page >= 1, 1 <= limit <= 100, a keyword that is not
\* blank.
ValidQuery(query) ==
    /\ "page" \in DOMAIN query
          => AllDigits(query["page"]) /\ AskedPage(query) >= 1
    /\ "limit" \in DOMAIN query
          => /\ AllDigits(query["limit"])
             /\ AskedLimit(query) >= 1 /\ AskedLimit(query) <= 100
    /\ "q" \in DOMAIN query
          => \E i \in 1..Len(query["q"]) : query["q"][i] \notin WhiteSpace

\* s contains k ignoring case: at some offset every character of k is the
\* character of s up to its case.
ContainsIgnoringCase(s, k) ==
    \E off \in 0..(Len(s) - Len(k)) :
        \A j \in 1..Len(k) : LowerChar(s[off + j]) = LowerChar(k[j])

\* The keyword without the white space around it.
Keyword(query) ==
    LET q == query["q"]
        inner == {i \in 1..Len(q) : q[i] \notin WhiteSpace}
        first == CHOOSE i \in inner : \A j \in inner : i <= j
        last == CHOOSE i \in inner : \A j \in inner : i >= j
    IN  [i \in 1..(last - first + 1) |-> q[first + i - 1]]

\* The stored note n passes the query's filter.
Passes(n, query) ==
    "q" \in DOMAIN query =>
        \/ ContainsIgnoringCase(n.title, Keyword(query))
        \/ ContainsIgnoringCase(n.content, Keyword(query))

\* The positions in the store of the notes that pass the filter.
Passing(query) == {i \in 1..Len(notes) : Passes(notes[i].value, query)}

\* The place of the note at store position i in the filtered list ordered by
\* createdAt descending (notes created in the same millisecond in the order
\* of the store): the number of passing notes that come before it, plus one.
Place(i, query) ==
    1 + Cardinality({j \in Passing(query) :
            \/ LocaleCompare(notes[j].value.createdAt, notes[i].value.createdAt) > 0
            \/ /\ notes[j].value.createdAt = notes[i].value.createdAt
               /\ j < i})

\* The note at place k of that list.
AtPlace(k, query) ==
    notes[CHOOSE i \in Passing(query) : Place(i, query) = k].value

\* C6: a valid list query is answered 200 with meta.total the number of notes
\* after filtering, meta.totalPages = max(1, ceil(total / limit)), meta.page =
\* min(page asked, totalPages), and items the notes at places (page-1)*limit+1
\* to page*limit of the filtered list ordered by createdAt descending, as far
\* as the list goes.
C6_Pagination ==
    req.method = "LIST" /\ ValidQuery(req.query) =>
        LET query == req.query
            limit == AskedLimit(query)
            total == Cardinality(Passing(query))
            totalPages == IF total = 0 THEN 1
                          ELSE CHOOSE n \in 1..total :
                                  n * limit >= total /\ (n - 1) * limit < total
            page == IF AskedPage(query) < totalPages
                    THEN AskedPage(query) ELSE totalPages
            first == (page - 1) * limit
            count == IF total - first < limit THEN total - first ELSE limit
        IN  /\ res.status = 200
            /\ res.body.meta = [page |-> page, limit |-> limit,
                                total |-> total, totalPages |-> totalPages]
            /\ 1 <= res.body.meta.page
            /\ res.body.meta.page <= res.body.meta.totalPages
            /\ Len(res.body.items) = count
            /\ count <= limit
            /\ \A k \in 1..count : res.body.items[k] = AtPlace(first + k, query)

\* C6's case: three notes, limit=10 and page=99: the page is clamped to 1 and
\* the three notes are returned.
C6_Witness ==
    /\ req.method = "LIST"
    /\ req.query = [limit |-> <<"1", "0">>, page |-> <<"9", "9">>]
    /\ Len(notes) = 3
    /\ res.body.meta.page = 1
    /\ Len(res.body.items) = 3

\* C7: every item of a list response is a stored note; with a keyword q every
\* item contains q (trimmed) in its title or content ignoring case, and
\* meta.total is the number of stored notes that do; without q meta.total is
\* the number of stored notes.
C7_KeywordFilter ==
    req.method = "LIST" /\ res.status = 200 =>
        /\ \A k \in 1..Len(res.body.items) :
              /\ \E i \in 1..Len(notes) : notes[i].value = res.body.items[k]
              /\ Passes(res.body.items[k], req.query)
        /\ res.body.meta.total = Cardinality(Passing(req.query))
        /\ "q" \notin DOMAIN req.query => res.body.meta.total = Len(notes)

\* C7's case: the keyword " AB " selects two of three stored notes, one by a
\* title and one by a content that differ from it in case.
C7_Witness ==
    /\ req.method = "LIST"
    /\ res.status = 200
    /\ "q" \in DOMAIN req.query
    /\ req.query["q"] = <<" ", "A", "B", " ">>
    /\ Len(notes) = 3
    /\ res.body.meta.total = 2
    /\ \E k \in 1..Len(res.body.items) : res.body.items[k].title = <<"A", "b">>
    /\ \E k \in 1..Len(res.body.items) :
          res.body.items[k].content = <<"z", "a", "B">>

(***************************************************************************)
(* SpecConcurrent: requests arrive while others wait.  express.json() reads *)
(* a body asynchronously, so the route handlers of the requests received    *)
(* begin in any order.  A handler reads the store when it begins            *)
(* (notes.get) and writes it when it ends (notes.set, notes.delete).        *)
(***************************************************************************)
ConcurrentRequests ==
    { [method |-> "POST",
       body |-> Object([title |-> Str(<<"A", "b">>), content |-> Str(<<"x", "y">>)])],
      [method |-> "PUT", id |-> TheId,
       body |-> Object([title |-> Str(<<"B">>), content |-> Str(<<"z">>)])],
      [method |-> "PATCH", id |-> TheId,
       body |-> Object([title |-> Str(<<" ", "C", "d">>)])],
      [method |-> "PATCH", id |-> TheId,
       body |-> Object([content |-> Str(<<"a", "b", "D", " ">>)])],
      [method |-> "DELETE", id |-> TheId] }

\* Whether a route handler gives up the thread between its read of the store
\* and its write: none does, each is one synchronous function without await,
\* which the event loop runs to its end before it begins another.
YieldsBetweenReadAndWrite == TRUE
Yields == FALSE

\* The outcome of the route handler of request on the store it read.
Outcome(request, seen, t, r) ==
    CASE request.method = "POST" ->
            App(seen, request.body, PostHandler(seen, t, r, request.body))
      [] request.method = "PUT" ->
            App(seen, request.body, PutHandler(seen, t, request.id, request.body))
      [] request.method = "PATCH" ->
            App(seen, request.body, PatchHandler(seen, t, request.id, request.body))
      [] request.method = "DELETE" -> DeleteHandler(seen, request.id)

\* The handler's write, made on the store as it is when the handler ends:
\* notes.set(id, note) or notes.delete(id) after a success, nothing otherwise.
Written(request, h, store) ==
    IF h.res.status \notin {200, 201} THEN store
    ELSE IF request.method = "DELETE" THEN MapDelete(store, request.id)
    ELSE IF request.method = "POST" THEN MapSet(store, h.res.body.id, h.res.body)
    ELSE MapSet(store, request.id, h.res.body)

\* A request is received.
Arrive(request) ==
    /\ Cardinality(inflight) + Cardinality(running) + Len(log) < MaxRequests
    /\ request \notin inflight
    /\ \A h \in running : h.request # request
    /\ inflight' = inflight \cup {request}
    /\ UNCHANGED <<notes, now, req, res, gone, running, log, steps>>

\* The route handler of a received request begins: it reads the store.  It
\* waits for the handler under way unless that one has given up the thread.
Begin(request, r) ==
    /\ request \in inflight
    /\ Yields \/ running = {}
    /\ inflight' = inflight \ {request}
    /\ running' = running \cup
          {[request |-> request, outcome |-> Outcome(request, notes, now, r),
            seen |-> notes, waiting |-> inflight \ {request}]}
    /\ UNCHANGED <<notes, now, req, res, gone, log, steps>>

\* A route handler ends: it writes the store and responds.
End(h) ==
    /\ h \in running
    /\ running' = running \ {h}
    /\ UNCHANGED <<inflight, steps>>
    /\ log' = Append(log, [request |-> h.request, status |-> h.outcome.res.status,
                           waiting |-> h.waiting])
    /\ Respond([notes |-> Written(h.request, h.outcome, notes),
                res |-> h.outcome.res], h.request)

NextConcurrent ==
    \/ \E request \in ConcurrentRequests : Arrive(request)
    \/ \E request \in inflight, r \in Randoms : Begin(request, r)
    \/ \E h \in running : End(h)

SpecConcurrent == Init /\ [][NextConcurrent]_vars

\* The field f that a successful PATCH on TheId gave, trimmed.
Given(entry, f) == Trim(entry.request.body.fields[f].chars)

PatchOf(entry, f) ==
    /\ entry.request.method = "PATCH"
    /\ entry.request.id = TheId
    /\ entry.status = 200
    /\ DOMAIN entry.request.body.fields = {f}

\* C9: no handler's read, validation and write are interleaved with another
\* request's access to the store: at most one handler is under way and the
\* store is still the one it read, so the store is the result of the
\* handlers run one after another in the order they ended; and of two PATCH
\* requests on one id that ended one after the other, one giving only a title
\* and one only a content, the note carries both the title and the content.
C9_HandlersAtomic ==
    /\ Cardinality(running) <= 1
    /\ \A h \in running : h.seen = notes
    /\ \A j \in 2..Len(log) :
          /\ (j = Len(log) /\ PatchOf(log[j - 1], "title") /\ PatchOf(log[j], "content"))
                => /\ Has(notes, TheId)
                   /\ Get(notes, TheId).title = Given(log[j - 1], "title")
                   /\ Get(notes, TheId).content = Given(log[j], "content")
          /\ (j = Len(log) /\ PatchOf(log[j - 1], "content") /\ PatchOf(log[j], "title"))
                => /\ Has(notes, TheId)
                   /\ Get(notes, TheId).content = Given(log[j - 1], "content")
                   /\ Get(notes, TheId).title = Given(log[j], "title")

\* C9's case: a PATCH giving only a content was received and waiting while
\* the PATCH giving only a title on the same id ran; both succeeded, and the
\* note carries the new title and the new content.
C9_Witness ==
    /\ Len(log) >= 3
    /\ PatchOf(log[Len(log) - 1], "title")
    /\ PatchOf(log[Len(log)], "content")
    /\ log[Len(log)].request \in log[Len(log) - 1].waiting
    /\ Get(notes, TheId).title = <<"C", "d">>
    /\ Get(notes, TheId).content = <<"a", "b", "D">>

(***************************************************************************)
(* The claims checked under Spec.                                           *)
(***************************************************************************)
NoteFields == {"id", "title", "content", "createdAt", "updatedAt"}

\* A step in which the handler of a request of method m ran.
Ran(m) == req'.method = m /\ now' = now

\* The body of the request just handled gave content and no title.
OnlyContent(r) ==
    /\ r.body.kind = "object"
    /\ "content" \in DOMAIN r.body.fields
    /\ "title" \notin DOMAIN r.body.fields

\* C2: a successful PUT or PATCH on an id leaves the note stored under that
\* id with the same id (the key) and the same createdAt, whatever keys the
\* body carries; the note keeps exactly its five fields, and no other note
\* and no key of the store changes.
C2_IdAndCreatedAtImmutable ==
    [][(Ran("PUT") \/ Ran("PATCH")) /\ res'.status = 200 =>
          /\ Has(notes, req'.id)
          /\ [i \in 1..Len(notes') |-> notes'[i].key]
               = [i \in 1..Len(notes) |-> notes[i].key]
          /\ Get(notes', req'.id).id = req'.id
          /\ Get(notes, req'.id).id = req'.id
          /\ Get(notes', req'.id).createdAt = Get(notes, req'.id).createdAt
          /\ DOMAIN Get(notes', req'.id) = NoteFields
          /\ \A k \in Keys(notes) \ {req'.id} : Get(notes', k) = Get(notes, k)
      ]_vars

\* C2's case: a PUT whose body carried id, createdAt and updatedAt succeeded
\* on a note that was created earlier.
C2_Witness ==
    /\ req.method = "PUT"
    /\ res.status = 200
    /\ {"id", "createdAt", "updatedAt"} \subseteq DOMAIN req.body.fields
    /\ Has(notes, req.id)
    /\ Get(notes, req.id).updatedAt # Get(notes, req.id).createdAt

\* C3 as stated: after a successful PATCH that gives only content, the title
\* and createdAt are unchanged, the content is the trimmed content given, and
\* updatedAt is strictly later than before.
C3_UpdatedAtStrictlyLater ==
    [][Ran("PATCH") /\ res'.status = 200 /\ OnlyContent(req') =>
          /\ Get(notes', req'.id).title = Get(notes, req'.id).title
          /\ Get(notes', req'.id).content = Trim(req'.body.fields["content"].chars)
          /\ Get(notes', req'.id).createdAt = Get(notes, req'.id).createdAt
          /\ LocaleCompare(Get(notes', req'.id).updatedAt,
                           Get(notes, req'.id).updatedAt) > 0
      ]_vars

\* C3 as amended: after a successful PATCH that gives only content, the title
\* and createdAt are unchanged, the content is the trimmed content given, and
\* updatedAt is the clock reading of the PATCH, which is never earlier than
\* the updatedAt before (and equal to it within the same millisecond).
C3_UpdatedAtRefreshed ==
    [][Ran("PATCH") /\ res'.status = 200 /\ OnlyContent(req') =>
          /\ Get(notes', req'.id).title = Get(notes, req'.id).title
          /\ Get(notes', req'.id).content = Trim(req'.body.fields["content"].chars)
          /\ Get(notes', req'.id).createdAt = Get(notes, req'.id).createdAt
          /\ Get(notes', req'.id).updatedAt = ToISOString(now)
          /\ LocaleCompare(Get(notes', req'.id).updatedAt,
                           Get(notes, req'.id).updatedAt) >= 0
      ]_vars

\* C3's case: a PATCH that gave only content succeeded after the clock had
\* moved on, and the stored note carries the trimmed content.
C3_Witness ==
    /\ req.method = "PATCH"
    /\ res.status = 200
    /\ OnlyContent(req)
    /\ Has(notes, req.id)
    /\ Get(notes, req.id).content = Trim(req.body.fields["content"].chars)
    /\ Get(notes, req.id).content # req.body.fields["content"].chars
    /\ LocaleCompare(Get(notes, req.id).updatedAt, Get(notes, req.id).createdAt) > 0

\* C4: a request answered with an error (400, 404 or 500), and every GET
\* /notes and GET /notes/:id, leaves the store exactly as it was.
C4_ErrorsLeaveStore ==
    [][now' = now /\ (res'.status >= 400 \/ req'.method \in {"GET", "LIST"})
          => notes' = notes]_vars

\* C4's case: a PATCH on a stored note was rejected with 400.
C4_Witness ==
    /\ req.method = "PATCH"
    /\ res.status = 400
    /\ res.body.error.code = "VALIDATION_ERROR"
    /\ Has(notes, req.id)
    /\ LocaleCompare(ToISOString(now), Get(notes, req.id).updatedAt) > 0

\* C5: every error response carries an error object with the three fields
\* code, message and details.
C5_ErrorEnvelope ==
    res.status >= 400 => DOMAIN res.body.error = {"code", "message", "details"}

ById == {"GET", "PUT", "PATCH", "DELETE"}

NotFound(r) == r.status = 404 /\ r.body.error.code = "NOTE_NOT_FOUND"

\* The request carries a body that is not JSON.
Malformed(r) == r.method \in {"POST", "PUT", "PATCH"} /\ r.body.kind = "malformed"

C10_CreateAddsOneNote ==
    [][Ran("POST") /\ res'.status = 201 =>
          /\ ~Has(notes, res'.body.id)
          /\ Len(notes') = Len(notes) + 1
          /\ SubSeq(notes', 1, Len(notes)) = notes
          /\ notes'[Len(notes')] = [key |-> res'.body.id, value |-> res'.body]
          /\ res'.body.createdAt = res'.body.updatedAt
      ]_vars

====
